---- MODULE Spec2Model ----
(***************************************************************************)
(* cloudinary-dump (main.go): the process from main() through             *)
(* Downloader.Dump: flag check, init, the cursor-driven enumeration of    *)
(* the remote catalog, and the download pipeline (distributor goroutine,  *)
(* Concurrency worker goroutines running downloadAsset, aggregator        *)
(* goroutine, two capacity-1 channels and the unbuffered finished         *)
(* channel).  The listing service, the network, the template engine and   *)
(* the filesystem are the environment.                                    *)
(***************************************************************************)
EXTENDS Integers, Sequences, FiniteSets, TLC

(* ------------------------------ bounds --------------------------------- *)
\* longest catalog the listing service holds
MaxK == 2
\* most pages the listing service splits the catalog into
MaxPages == 2
\* largest value of the -c flag explored (0 .. MaxConcurrency)
MaxConcurrency == 2

(* ------------------------- program constants --------------------------- *)
\* nextCursor := ""  (the empty cursor; cursors are opaque tokens, here 0, 1, 2, ...)
EmptyCursor == 0
\* make(chan api.BriefAssetResult, 1)
PendingCapLarger == 1 + 1
PendingCap == 1
CompletedCap == 1

(* ------------------------------ data ----------------------------------- *)
\* api.BriefAssetResult values the remote account may hold: two assets of
\* different identifier and size sharing one format.
Descriptors ==
  { [AssetID |-> 1, PublicID |-> "a", Format |-> "jpg", Bytes |-> 10],
    [AssetID |-> 2, PublicID |-> "b", Format |-> "jpg", Bytes |-> 20] }

\* values of the -t flag: two well-formed templates over fields of the
\* descriptor, one naming a field the descriptor lacks, one that does not parse
TemplateStrings == { "{{.PublicID}}", "{{.Format}}", "{{.Nope}}", "{{" }

\* values of the -u flag: absent, not a cloudinary URL, valid
URLStrings == { "", "bad", "ok" }

NoTemplate == "nil"
RenderError == "render error"

\* template.Parse: the compiled template, or NoTemplate on a syntax error
Parse(s) == IF s = "{{" THEN NoTemplate ELSE s

\* template.Execute on a descriptor: the rendered file name, or RenderError
\* when the template names a field the descriptor does not have
Execute(t, asset) ==
  CASE t = "{{.PublicID}}" -> asset.PublicID
    [] t = "{{.Format}}"   -> asset.Format
    [] OTHER               -> RenderError

\* path.Join(d.TargetFolder, fileName.String()): one path per rendered name
\* under the fixed target folder
Paths == { "a", "b", "jpg" }
FullFileName(t, asset) == Execute(t, asset)
\* the paths a run with template string s can touch
Reachable(s) == { FullFileName(Parse(s), d) : d \in Descriptors } \cap Paths

\* a filesystem entry: absent, the file that was there before the run, or a
\* file holding the first len bytes of the body of asset src
Absent == [src |-> -1, len |-> 0]
OldFile == [src |-> 0, len |-> 1]
FileOf(asset, n) == [src |-> asset.AssetID, len |-> n]
Exists(f) == f # Absent

\* a channel element: the descriptor, tagged with its catalog position
Msg(i, asset) == [idx |-> i, asset |-> asset]
NoMsg == [idx |-> 0, asset |-> [AssetID |-> 0, PublicID |-> "", Format |-> "", Bytes |-> 0]]

Workers == 1..MaxConcurrency

RECURSIVE SumBytes(_, _)
SumBytes(a, i) == IF i > Len(a) THEN 0 ELSE a[i].Bytes + SumBytes(a, i + 1)
\* assetList.TotalSize
TotalSize(a) == SumBytes(a, 1)

RECURSIVE Concat(_, _)
\* the concatenation of the asset lists of pages ps[i..]
Concat(ps, i) == IF i > Len(ps) THEN << >> ELSE ps[i].Assets \o Concat(ps, i + 1)

SeqsUpTo(S, n) == UNION { [1..k -> S] : k \in 0..n }

VARIABLES
  \* flags (main.go:22-28) and the Downloader's fields
  CloudinaryURL, printHelp, TargetFileNameTemplateString, Concurrency,
  cld, targetFileNameTemplate,
  \* environment: the listing service's pages (as far as handed out) and the
  \* files under the target folder; preexisting is fs at process start
  pages, fs, preexisting,
  \* main goroutine: position, Dump's return value, process exit status
  pc, dumpErr, exit,
  \* collectAllAssets locals, the cursors requested so far, Dump's assets
  nextCursor, result, requests, assets,
  \* channels
  pending, pendingClosed, completedAssets, finished,
  \* distributor goroutine
  dpc, idx, sendLog,
  \* worker goroutines
  wpc, wasset, werr, recvCount, pushCount,
  \* downloadAsset effects: os.Create calls per path
  createCount,
  \* aggregator goroutine
  apc, completed

confVars == << CloudinaryURL, printHelp, TargetFileNameTemplateString, Concurrency, preexisting >>
initVars == << cld, targetFileNameTemplate >>
collectVars == << nextCursor, result, requests, pages >>
chanVars == << pending, pendingClosed, completedAssets, finished >>
distVars == << dpc, idx, sendLog >>
workerVars == << wpc, wasset, werr, recvCount, pushCount >>
fsVars == << fs, createCount >>
aggVars == << apc, completed >>
mainVars == << pc, dumpErr, exit >>
vars == << confVars, initVars, collectVars, assets, chanVars, distVars, workerVars,
           fsVars, aggVars, mainVars >>

Running == exit = "running"

Init ==
  /\ CloudinaryURL \in URLStrings
  /\ printHelp \in BOOLEAN
  /\ TargetFileNameTemplateString \in TemplateStrings
  /\ Concurrency \in 0..MaxConcurrency
  /\ preexisting \in SUBSET Reachable(TargetFileNameTemplateString)
  /\ fs = [p \in Paths |-> IF p \in preexisting THEN OldFile ELSE Absent]
  /\ cld = FALSE
  /\ targetFileNameTemplate = NoTemplate
  /\ pages = << >>
  /\ pc = "main"
  /\ dumpErr = "none"
  /\ exit = "running"
  /\ nextCursor = EmptyCursor
  /\ result = << >>
  /\ requests = << >>
  /\ assets = << >>
  /\ pending = << >>
  /\ pendingClosed = FALSE
  /\ completedAssets = << >>
  /\ finished = FALSE
  /\ dpc = "off"
  /\ idx = 1
  /\ sendLog = << >>
  /\ wpc = [w \in Workers |-> "off"]
  /\ wasset = [w \in Workers |-> NoMsg]
  /\ werr = [w \in Workers |-> "nil"]
  /\ recvCount = [i \in 1..MaxK |-> 0]
  /\ pushCount = [i \in 1..MaxK |-> 0]
  /\ createCount = [p \in Paths |-> 0]
  /\ apc = "off"
  /\ completed = << >>

(* ------------------------------- main ---------------------------------- *)
\* main.go:178-181: no credentials URL, or -h: print usage and os.Exit(1)
MainUsage ==
  /\ Running /\ pc = "main"
  /\ (CloudinaryURL = "" \/ printHelp)
  /\ exit' = "usage"
  /\ UNCHANGED << confVars, initVars, collectVars, assets, chanVars, distVars,
                  workerVars, fsVars, aggVars, pc, dumpErr >>

\* main.go:182-188: otherwise call Dump
MainCallDump ==
  /\ Running /\ pc = "main"
  /\ ~(CloudinaryURL = "" \/ printHelp)
  /\ pc' = "init"
  /\ UNCHANGED << confVars, initVars, collectVars, assets, chanVars, distVars,
                  workerVars, fsVars, aggVars, dumpErr, exit >>

\* main.go:183-189: Dump has returned; its result is dropped and main returns,
\* which ends the process with status 0 and every goroutine with it
MainReturn ==
  /\ Running /\ pc = "returned"
  /\ exit' = "ok"
  /\ UNCHANGED << confVars, initVars, collectVars, assets, chanVars, distVars,
                  workerVars, fsVars, aggVars, pc, dumpErr >>

(* ------------------------------- init ---------------------------------- *)
\* cloudinary.NewFromURL: fails on a string that is not a cloudinary URL
NewFromURLFails(url) == url # "ok"

\* Downloader.init, main.go:76-79
InitCloudinaryFailsGoesOn ==
  /\ Running /\ pc = "init"
  /\ NewFromURLFails(CloudinaryURL)
  /\ pc' = "collect"
  /\ UNCHANGED << confVars, initVars, collectVars, assets, chanVars, distVars,
                  workerVars, fsVars, aggVars, dumpErr, exit >>
InitCloudinaryFails ==
  /\ Running /\ pc = "init"
  /\ NewFromURLFails(CloudinaryURL)
  /\ dumpErr' = "failed to initialize Cloudinary"
  /\ pc' = "returned"
  /\ UNCHANGED << confVars, initVars, collectVars, assets, chanVars, distVars,
                  workerVars, fsVars, aggVars, exit >>

\* Downloader.init, main.go:80-84
InitTemplateFails ==
  /\ Running /\ pc = "init"
  /\ ~NewFromURLFails(CloudinaryURL)
  /\ Parse(TargetFileNameTemplateString) = NoTemplate
  /\ cld' = TRUE
  /\ dumpErr' = "argument TargetFileNameTemplate has incorrect syntax"
  /\ pc' = "returned"
  /\ UNCHANGED << confVars, targetFileNameTemplate, collectVars, assets, chanVars,
                  distVars, workerVars, fsVars, aggVars, exit >>

\* Downloader.init returns nil, main.go:85 and 126-129
InitOk ==
  /\ Running /\ pc = "init"
  /\ ~NewFromURLFails(CloudinaryURL)
  /\ Parse(TargetFileNameTemplateString) # NoTemplate
  /\ cld' = TRUE
  /\ targetFileNameTemplate' = Parse(TargetFileNameTemplateString)
  /\ pc' = "collect"
  /\ UNCHANGED << confVars, collectVars, assets, chanVars, distVars, workerVars,
                  fsVars, aggVars, dumpErr, exit >>

(* --------------------------- collectAllAssets -------------------------- *)
\* The listing service keeps the catalog as a chain of pages; page i is
\* answered to cursor i-1 and carries cursor i, the last one the empty cursor.
\* The chain is fixed as it is handed out: a cursor already answered is
\* answered with the same page again.
Known(cursor) == cursor + 1 <= Len(pages)

NewPages ==
  { [Assets |-> as, NextCursor |-> nc] :
      as \in SeqsUpTo(Descriptors, MaxK - Len(Concat(pages, 1))),
      nc \in IF Len(pages) + 1 < MaxPages THEN { EmptyCursor, Len(pages) + 1 }
                                           ELSE { EmptyCursor } }

\* d.cld.Admin.Assets(ctx, AssetsParams{NextCursor: cursor}): the pages it may answer
Answers(cursor) == IF Known(cursor) THEN { pages[cursor + 1] } ELSE NewPages

\* result = append(result, page.Assets...)
AppendPageFront(res, page) == page.Assets \o res
AppendPage(res, page) == res \o page.Assets

\* if page.NextCursor == "" { break }
IsLastPage(page) == page.NextCursor = EmptyCursor

\* main.go:55-61 and 130-133: the request errors; collectAllAssets returns
\* (nil, err) and Dump returns the wrapped error
CollectRequestFails ==
  /\ Running /\ pc = "collect"
  /\ requests' = Append(requests, nextCursor)
  /\ dumpErr' = "unable to collect information about assets"
  /\ pc' = "returned"
  /\ UNCHANGED << confVars, initVars, nextCursor, result, pages, assets, chanVars,
                  distVars, workerVars, fsVars, aggVars, exit >>

\* main.go:62-64: the page carries an in-band error message; log.Panic
CollectInBandError ==
  /\ Running /\ pc = "collect"
  /\ requests' = Append(requests, nextCursor)
  /\ exit' = "panic"
  /\ UNCHANGED << confVars, initVars, nextCursor, result, pages, assets, chanVars,
                  distVars, workerVars, fsVars, aggVars, pc, dumpErr >>

\* main.go:54-71: one iteration of the loop on a good page; on the last page
\* the loop ends and Dump holds the catalog (main.go:130-134)
CollectPage ==
  /\ Running /\ pc = "collect"
  /\ \E page \in Answers(nextCursor) :
       /\ pages' = IF Known(nextCursor) THEN pages ELSE Append(pages, page)
       /\ requests' = Append(requests, nextCursor)
       /\ nextCursor' = page.NextCursor
       /\ result' = AppendPage(result, page)
       /\ IF IsLastPage(page)
            THEN assets' = result' /\ pc' = "launch"
            ELSE assets' = assets /\ pc' = "collect"
  /\ UNCHANGED << confVars, initVars, chanVars, distVars, workerVars, fsVars,
                  aggVars, dumpErr, exit >>

(* ------------------------------ Dump ----------------------------------- *)
\* main.go:134-168: log the summary, make the channels, start the distributor,
\* the aggregator and Concurrency workers.  A goroutine that has been started
\* and has not yet taken a step is in the same state as one about to be
\* started, so the starts are one step.  collectAllAssets has returned: its
\* locals are gone, and the listing service is not used again, so the record
\* of its pages and of the requests made ends here.
LaunchAtLeastOne ==
  /\ Running /\ pc = "launch"
  /\ nextCursor' = EmptyCursor /\ result' = << >>
  /\ requests' = << >> /\ pages' = << >>
  /\ dpc' = "send"
  /\ apc' = "recv"
  /\ wpc' = [w \in Workers |-> IF w <= Concurrency \/ w = 1 THEN "recv" ELSE "off"]
  /\ pc' = "wait"
  /\ UNCHANGED << confVars, initVars, assets, chanVars, idx, sendLog,
                  wasset, werr, recvCount, pushCount, fsVars, completed,
                  dumpErr, exit >>
Launch ==
  /\ Running /\ pc = "launch"
  /\ nextCursor' = EmptyCursor /\ result' = << >>
  /\ requests' = << >> /\ pages' = << >>
  /\ dpc' = "send"
  /\ apc' = "recv"
  /\ wpc' = [w \in Workers |-> IF w <= Concurrency THEN "recv" ELSE "off"]
  /\ pc' = "wait"
  /\ UNCHANGED << confVars, initVars, assets, chanVars, idx, sendLog,
                  wasset, werr, recvCount, pushCount, fsVars, completed,
                  dumpErr, exit >>

\* main.go:169-170: <-finished, return nil
DumpReturn ==
  /\ Running /\ pc = "wait"
  /\ finished
  /\ dumpErr' = "nil"
  /\ pc' = "returned"
  /\ UNCHANGED << confVars, initVars, collectVars, assets, chanVars, distVars,
                  workerVars, fsVars, aggVars, exit >>

(* --------------------------- distributor ------------------------------- *)
\* the element sent at loop index i: assets[idx]
SentFirst(i) == Msg(i, assets[1])
Sent(i) == Msg(i, assets[i])

\* main.go:139-141: pending <- assets[idx]
DistSend ==
  /\ Running /\ dpc = "send"
  /\ idx <= Len(assets)
  /\ Len(pending) < PendingCap
  /\ pending' = Append(pending, Sent(idx))
  /\ sendLog' = Append(sendLog, Sent(idx))
  /\ idx' = idx + 1
  /\ UNCHANGED << confVars, initVars, collectVars, assets, pendingClosed,
                  completedAssets, finished, dpc, workerVars, fsVars, aggVars, mainVars >>

\* main.go:142: close(pending)
DistCloseForgotten ==
  /\ Running /\ dpc = "send"
  /\ idx > Len(assets)
  /\ dpc' = "done"
  /\ UNCHANGED << confVars, initVars, collectVars, assets, chanVars, idx, sendLog,
                  workerVars, fsVars, aggVars, mainVars >>
DistClose ==
  /\ Running /\ dpc = "send"
  /\ idx > Len(assets)
  /\ pendingClosed' = TRUE
  /\ dpc' = "done"
  /\ UNCHANGED << confVars, initVars, collectVars, assets, pending, completedAssets,
                  finished, idx, sendLog, workerVars, fsVars, aggVars, mainVars >>

(* ------------------------------ workers -------------------------------- *)
\* what a receive leaves in the channel
PeekRest(ch) == ch
Rest(ch) == Tail(ch)

\* main.go:115: asset := range pending, an element is there
WorkerRecv(w) ==
  /\ Running /\ wpc[w] = "recv"
  /\ pending # << >>
  /\ wasset' = [wasset EXCEPT ![w] = Head(pending)]
  /\ recvCount' = [recvCount EXCEPT ![Head(pending).idx] = @ + 1]
  /\ pending' = Rest(pending)
  /\ wpc' = [wpc EXCEPT ![w] = "fetch"]
  /\ UNCHANGED << confVars, initVars, collectVars, assets, pendingClosed,
                  completedAssets, finished, distVars, werr, pushCount, fsVars,
                  aggVars, mainVars >>

\* main.go:115 and 122: pending is closed and drained, the loop and the worker end
WorkerExit(w) ==
  /\ Running /\ wpc[w] = "recv"
  /\ pending = << >> /\ pendingClosed
  /\ wpc' = [wpc EXCEPT ![w] = "done"]
  /\ UNCHANGED << confVars, initVars, collectVars, assets, chanVars, distVars,
                  wasset, werr, recvCount, pushCount, fsVars, aggVars, mainVars >>

\* fullFileName of the worker's descriptor
PathOf(w) == FullFileName(targetFileNameTemplate, wasset[w].asset)

\* main.go:99-100: _, err = os.Stat(fullFileName); !os.IsNotExist(err).
\* On an existing entry Stat returns a nil error, and os.IsNotExist(nil) is false.
StatRejectsNothing(f) == FALSE
StatRejects(f) == Exists(f)

\* main.go:116-119: downloadAsset returns the error and the worker calls
\* log.Fatalf, which writes the message and ends the process with status 1.
\* Nothing but the write of the message lies between the failing call and
\* the exit, so the two are one step.
FailLogsOnly(w, msg) ==
  /\ wpc' = [wpc EXCEPT ![w] = "send"]
  /\ werr' = [werr EXCEPT ![w] = msg]
  /\ exit' = exit
Fail(w, msg) ==
  /\ wpc' = [wpc EXCEPT ![w] = "failed"]
  /\ werr' = [werr EXCEPT ![w] = msg]
  /\ exit' = "fatal"

\* downloadAsset goes on to its next step
Goes(w, next) ==
  /\ wpc' = [wpc EXCEPT ![w] = next]
  /\ werr' = werr
  /\ exit' = exit

\* main.go:89-102: http.Get, render the file name, stat the destination
DownloadOpen(w) ==
  /\ Running /\ wpc[w] = "fetch"
  /\ \/ Fail(w, "failed to make request")
     \/ /\ PathOf(w) = RenderError
        /\ Fail(w, "failed to create file name")
     \/ /\ PathOf(w) # RenderError
        /\ StatRejects(fs[PathOf(w)])
        /\ Fail(w, "checking file absence failed: <nil>")
     \/ /\ PathOf(w) # RenderError
        /\ ~StatRejects(fs[PathOf(w)])
        /\ \/ Fail(w, "checking file absence failed")
           \/ Goes(w, "create")
  /\ UNCHANGED << confVars, initVars, collectVars, assets, chanVars, distVars,
                  wasset, recvCount, pushCount, fsVars, aggVars, pc, dumpErr >>

\* main.go:103-106: f, err := os.Create(fullFileName): O_RDWR|O_CREATE|O_TRUNC
DownloadCreate(w) ==
  /\ Running /\ wpc[w] = "create"
  /\ \/ /\ Fail(w, "failed to create file")
        /\ UNCHANGED fsVars
     \/ /\ fs' = [fs EXCEPT ![PathOf(w)] = FileOf(wasset[w].asset, 0)]
        /\ createCount' = [createCount EXCEPT ![PathOf(w)] = @ + 1]
        /\ Goes(w, "copy")
  /\ UNCHANGED << confVars, initVars, collectVars, assets, chanVars, distVars,
                  wasset, recvCount, pushCount, aggVars, pc, dumpErr >>

\* main.go:107-111: io.Copy(f, resp.Body); a failed copy leaves a part of the body
DownloadCopySkipped(w) ==
  /\ Running /\ wpc[w] = "copy"
  /\ Goes(w, "send")
  /\ UNCHANGED << confVars, initVars, collectVars, assets, chanVars, distVars,
                  wasset, recvCount, pushCount, fsVars, aggVars, pc, dumpErr >>
DownloadCopy(w) ==
  /\ Running /\ wpc[w] = "copy"
  /\ \/ /\ Fail(w, "failed to copy data from network to files")
        /\ \E n \in { 0, wasset[w].asset.Bytes \div 2 } :
             fs' = [fs EXCEPT ![PathOf(w)] = FileOf(wasset[w].asset, n)]
     \/ /\ fs' = [fs EXCEPT ![PathOf(w)] = FileOf(wasset[w].asset, wasset[w].asset.Bytes)]
        /\ Goes(w, "send")
  /\ UNCHANGED << confVars, initVars, collectVars, assets, chanVars, distVars,
                  wasset, recvCount, pushCount, createCount, aggVars, pc, dumpErr >>

\* main.go:120: completed <- asset
WorkerSend(w) ==
  /\ Running /\ wpc[w] = "send"
  /\ Len(completedAssets) < CompletedCap
  /\ completedAssets' = Append(completedAssets, wasset[w])
  /\ pushCount' = [pushCount EXCEPT ![wasset[w].idx] = @ + 1]
  /\ wasset' = [wasset EXCEPT ![w] = NoMsg]
  /\ wpc' = [wpc EXCEPT ![w] = "recv"]
  /\ UNCHANGED << confVars, initVars, collectVars, assets, pending, pendingClosed,
                  finished, distVars, werr, recvCount, fsVars, aggVars, mainVars >>

(* ----------------------------- aggregator ------------------------------ *)
\* main.go:149-159: the progress line written when more than a second has
\* passed since the last one; writing it changes no state of the program
ProgressLine(done, allAssets) ==
  [done |-> Len(done), total |-> Len(allAssets),
   pct10 |-> (Len(done) * 1000) \div Len(allAssets),
   doneBytes |-> TotalSize([i \in 1..Len(done) |-> done[i].asset]),
   totalBytes |-> TotalSize(allAssets)]

\* main.go:160: len(completed) == len(allAssets)
AllButOneAccounted(done, allAssets) == Len(done) + 1 >= Len(allAssets)
MoreThanAllAccounted(done, allAssets) == Len(done) > Len(allAssets)
AllAccounted(done, allAssets) == Len(done) = Len(allAssets)

\* main.go:147-162: one iteration of the loop over completedAssets
AggRecv ==
  /\ Running /\ apc = "recv"
  /\ completedAssets # << >>
  /\ completedAssets' = Tail(completedAssets)
  /\ completed' = Append(completed, Head(completedAssets))
  /\ apc' = IF AllAccounted(completed', assets) THEN "close" ELSE "recv"
  /\ UNCHANGED << confVars, initVars, collectVars, assets, pending, pendingClosed,
                  finished, distVars, workerVars, fsVars, mainVars >>

\* main.go:164: close(finished)
AggClose ==
  /\ Running /\ apc = "close"
  /\ finished' = TRUE
  /\ apc' = "done"
  /\ UNCHANGED << confVars, initVars, collectVars, assets, pending, pendingClosed,
                  completedAssets, distVars, workerVars, fsVars, completed, mainVars >>

(* --------------------------- specifications ---------------------------- *)
Main ==
  \/ MainUsage \/ MainCallDump \/ MainReturn
  \/ InitCloudinaryFails \/ InitTemplateFails \/ InitOk
  \/ CollectRequestFails \/ CollectInBandError \/ CollectPage
  \/ Launch \/ DumpReturn

Distributor == DistSend \/ DistClose

Worker(w) ==
  \/ WorkerRecv(w) \/ WorkerExit(w)
  \/ DownloadOpen(w) \/ DownloadCreate(w) \/ DownloadCopy(w)
  \/ WorkerSend(w)

Aggregator == AggRecv \/ AggClose

Next ==
  \/ Main
  \/ Distributor
  \/ \E w \in Workers : Worker(w)
  \/ Aggregator

Spec == Init /\ [][Next]_vars

\* the Go scheduler runs some goroutine whenever one can take a step; every
\* step moves its goroutine forward, so no goroutine is passed over forever
FairSpec == Spec /\ WF_vars(Next)


(* ------------------------------ claims --------------------------------- *)
K == Len(assets)

\* some worker's downloadAsset has returned an error
FetchFailed == \E w \in Workers : wpc[w] = "failed"

\* occurrences of descriptor d in a sequence of descriptors
Count(a, d) == Cardinality({ i \in 1..Len(a) : a[i] = d })
\* the descriptors of a sequence of channel elements
AssetsOf(ms) == [i \in 1..Len(ms) |-> ms[i].asset]
\* channel elements with catalog position i in a sequence
CountIdx(ms, i) == Cardinality({ j \in 1..Len(ms) : ms[j].idx = i })

\* C1: the aggregator never holds more than K completions, and it leaves its
\* loop and closes finished only with exactly K completions received.
C1_SignalsOnlyAtK ==
  /\ Len(completed) <= K
  /\ (apc \in { "close", "done" } \/ finished) => Len(completed) = K

\* finished is closed after two workers completed a two-entry catalog out of
\* catalog order
C1_Witness ==
  /\ finished /\ Concurrency = 2 /\ K = 2
  /\ completed[1].idx = 2

\* C2: under fair scheduling, once the pipeline of a run with Concurrency >= 1
\* and K >= 1 is started, either some fetch fails or Dump returns nil.
C2_EventuallyReturnsNil ==
  (pc = "wait" /\ Concurrency >= 1 /\ K >= 1) ~> (dumpErr = "nil" \/ FetchFailed)

\* Dump has returned nil for a catalog longer than the number of workers
C2_Witness ==
  /\ dumpErr = "nil" /\ K = 2 /\ Concurrency = 1 /\ ~FetchFailed

\* C3: a fetch whose destination exists at the existence check succeeds
\* without a write: no fetch fails on the existence check of an existing entry.
C3_ExistingDestinationIsSkip ==
  \A w \in Workers :
    wpc[w] = "failed" => werr[w] # "checking file absence failed: <nil>"

\* C4: a failed fetch ends the process at that step: the process has exited
\* fatally whenever some fetch has returned an error, the failing descriptor
\* is never pushed, finished is not closed and Dump has not returned nil, and
\* from then on nothing is received or returned.
C4_FailedFetchState ==
  /\ \A w \in Workers :
       werr[w] # "nil" =>
         /\ exit = "fatal" /\ wpc[w] = "failed"
         /\ pushCount[wasset[w].idx] = 0
         /\ CountIdx(completedAssets, wasset[w].idx) = 0
         /\ CountIdx(completed, wasset[w].idx) = 0
  /\ FetchFailed => (~finished /\ dumpErr # "nil" /\ Len(completed) < K)
  /\ exit = "fatal" => FetchFailed

C4_FailedFetchStep ==
  FetchFailed => (exit' = "fatal" /\ completed' = completed /\ dumpErr' = dumpErr
                  /\ completedAssets' = completedAssets)

C5_CollectAllConcatenatesPages ==
  /\ (Running /\ pc \in { "collect", "launch" }) =>
       /\ result = Concat(pages, 1)
       /\ Len(requests) = Len(pages)
       /\ \A i \in 1..Len(requests) :
            requests[i] = IF i = 1 THEN EmptyCursor ELSE pages[i - 1].NextCursor
       /\ \A i \in 1..(Len(pages) - 1) : pages[i].NextCursor # EmptyCursor
  /\ pc = "collect" => (pages = << >> \/ pages[Len(pages)].NextCursor # EmptyCursor)
  /\ pc = "launch" =>
       /\ assets = Concat(pages, 1)
       /\ pages # << >> /\ pages[Len(pages)].NextCursor = EmptyCursor

\* a catalog of two different descriptors was collected from two pages
C5_Witness ==
  /\ pc = "launch" /\ Len(pages) = 2
  /\ Len(pages[1].Assets) = 1 /\ Len(pages[2].Assets) = 1
  /\ K = 2 /\ assets[1] # assets[2]

\* C6: the aggregator waits for a completion only while fewer than K are
\* accounted for, so with K = 0 it does not wait at all (stated for runs
\* with at least one worker).
C6_EmptyCatalogTerminates ==
  (Concurrency >= 1 /\ apc = "recv") => Len(completed) < K

\* C7: the sends of the distributor are a prefix of the catalog, each entry
\* under its own index, and pending is closed only when all K are sent.
C7_DistributorSendsCatalogInOrder ==
  /\ Len(sendLog) <= K
  /\ \A i \in 1..Len(sendLog) : sendLog[i] = Msg(i, assets[i])
  /\ pendingClosed => Len(sendLog) = K
  /\ dpc = "done" => pendingClosed

\* pending is closed after two different descriptors were sent
C7_Witness ==
  /\ pendingClosed /\ Len(sendLog) = 2
  /\ sendLog[1].asset # sendLog[2].asset

\* C8: every catalog index is received by at most one worker and pushed at
\* most once, as the descriptor of that index; what the aggregator holds is a
\* sub-multiset of the catalog, and the whole catalog when finished is closed.
C8_SingleConsumerPerItem ==
  /\ \A i \in 1..MaxK :
       /\ recvCount[i] <= 1
       /\ pushCount[i] <= recvCount[i]
       /\ pushCount[i] = CountIdx(completedAssets, i) + CountIdx(completed, i)
       /\ CountIdx(pending, i) + recvCount[i] <= 1
  /\ \A i \in 1..Len(completed) : completed[i] = Msg(completed[i].idx, assets[completed[i].idx])
  /\ \A i \in 1..Len(completedAssets) :
       completedAssets[i] = Msg(completedAssets[i].idx, assets[completedAssets[i].idx])
  /\ \A d \in Descriptors : Count(AssetsOf(completed), d) <= Count(assets, d)
  /\ finished =>
       /\ \A d \in Descriptors : Count(AssetsOf(completed), d) = Count(assets, d)
       /\ \A i \in 1..K : pushCount[i] = 1

\* two workers each fetched one of two different descriptors and finished is closed
C8_Witness ==
  /\ finished /\ Concurrency = 2 /\ K = 2
  /\ assets[1] # assets[2]
  /\ completed[1].idx = 2 /\ completed[2].idx = 1

\* C9: no path is created more than once, and a path that held a file before
\* the run is never created.
C9_ExclusiveCreate ==
  \A p \in Paths : createCount[p] + (IF p \in preexisting THEN 1 ELSE 0) <= 1

\* C10: a file that was there before the run keeps its contents, and no
\* create or write is done on its path.
C10_PreexistingUntouched ==
  \A p \in preexisting : fs[p] = OldFile /\ createCount[p] = 0

\* a fetch of a descriptor that resolves to a file present before the run
\* reached the existence check, while another worker has written its file
C10_Witness ==
  \E w \in Workers :
    /\ wpc[w] = "failed" /\ werr[w] = "checking file absence failed: <nil>"
    /\ PathOf(w) \in preexisting
    /\ \E p \in Paths : createCount[p] = 1

(* ------------------------------ C11 - C19 ------------------------------ *)
\* the catalog positions whose completion the aggregator has received, each
\* with its size: the byte sum of what has been received, computed from the
\* catalog and not from the accumulated list
RECURSIVE ReceivedBytes(_)
ReceivedBytes(i) ==
  IF i = 0 THEN 0
  ELSE ReceivedBytes(i - 1) + assets[i].Bytes * CountIdx(completed, i)

\* C11: in every state of the aggregator the completed count is at most the
\* catalog length, so the percentage of a progress line is at most 100, and
\* the completed byte sum is at most TotalSize of the catalog.
C11_ProgressWithinTotals ==
  /\ Len(completed) <= K
  /\ TotalSize(AssetsOf(completed)) <= TotalSize(assets)
  /\ completed # << >> =>
       LET line == ProgressLine(completed, assets)
       IN  /\ line.done <= line.total
           /\ line.pct10 <= 1000
           /\ line.doneBytes <= line.totalBytes

C11_Witness ==
  /\ K = 2 /\ Len(completed) = 1
  /\ completed[1].idx = 2
  /\ ProgressLine(completed, assets).pct10 = 500
  /\ ProgressLine(completed, assets).doneBytes = 20

\* workers between the start of http.Get and the end of io.Copy
Fetching == { w \in Workers : wpc[w] \in {"fetch", "create", "copy"} }
\* descriptors the distributor has sent and the aggregator has not received
InFlight == Len(sendLog) - Len(completed)

C13_EnumerationFailureIsReturned ==
  (exit = "panic" \/ dumpErr = "unable to collect information about assets") =>
    /\ dumpErr = "unable to collect information about assets"
    /\ exit # "panic"
    /\ assets = << >>

\* C14: a run started with a credentials URL whose Dump failed at
\* initialization or enumeration does not end as a normal successful exit.
C14_FailedDumpIsNotSuccess ==
  exit = "ok" => dumpErr = "nil"

InitSucceeded == cld /\ targetFileNameTemplate # NoTemplate
EnumerationSucceeded ==
  \/ pc \in {"launch", "wait"}
  \/ pc = "returned" /\ dumpErr = "nil"
\* a distributor send, a worker receive or fetch, or a file written
PipelineActivity ==
  \/ dpc # "off" \/ apc # "off"
  \/ sendLog # << >> \/ pending # << >> \/ completedAssets # << >>
  \/ \E w \in Workers : wpc[w] # "off" \/ wasset[w] # NoMsg
  \/ \E i \in 1..MaxK : recvCount[i] > 0 \/ pushCount[i] > 0
  \/ \E p \in Paths : createCount[p] > 0
  \/ fs # [p \in Paths |-> IF p \in preexisting THEN OldFile ELSE Absent]

\* C15: a listing request is made only after initialization succeeded; a
\* distributor send, a worker fetch or a file write happens only after
\* initialization and the whole enumeration succeeded; a run whose
\* initialization or enumeration failed fetches nothing and creates no file.
C15_PhasesOrdered ==
  /\ (requests # << >> \/ pages # << >> \/ result # << >>) => InitSucceeded
  /\ pc \in {"collect", "launch", "wait"} => InitSucceeded
  /\ assets # << >> => InitSucceeded /\ EnumerationSucceeded
  /\ PipelineActivity => InitSucceeded /\ EnumerationSucceeded
  /\ (dumpErr \notin {"none", "nil"} \/ exit \in {"panic", "usage"}) =>
       ~PipelineActivity

C15_Witness ==
  /\ dumpErr = "unable to collect information about assets"
  /\ Len(requests) = 2 /\ Len(result) >= 1
  /\ ~PipelineActivity

\* C16: the completed count is the number of completions received, it grows
\* by exactly one with each receive and never decreases; the completed byte
\* sum is the sum of the sizes of the received descriptors; once the
\* aggregator has stopped the count is K and the byte sum is TotalSize of the
\* catalog.
\* completions pushed by the workers for catalog positions 1..i
RECURSIVE Pushed(_)
Pushed(i) == IF i = 0 THEN 0 ELSE Pushed(i - 1) + pushCount[i]

C16_ProgressStateStep ==
  /\ Len(completed') >= Len(completed)
  /\ completedAssets' # completedAssets /\ Len(completedAssets') < Len(completedAssets) =>
       /\ Len(completed') = Len(completed) + 1
       /\ completed' = Append(completed, Head(completedAssets))
  /\ completed' # completed =>
       /\ Len(completed') = Len(completed) + 1
       /\ Len(completedAssets') = Len(completedAssets) - 1

C16_ProgressState ==
  /\ Len(completed) + Len(completedAssets) = Pushed(MaxK)
  /\ completed # << >> =>
       LET line == ProgressLine(completed, assets)
       IN  /\ line.done = Len(completed)
           /\ line.doneBytes = ReceivedBytes(K)
  /\ apc \in {"close", "done"} =>
       /\ Len(completed) = K
       /\ TotalSize(AssetsOf(completed)) = TotalSize(assets)
       /\ K >= 1 => ProgressLine(completed, assets).doneBytes
                      = ProgressLine(completed, assets).totalBytes

C16_ProgressFromReceived == []C16_ProgressState /\ [][C16_ProgressStateStep]_vars

C16_Witness ==
  /\ K = 2 /\ apc = "done"
  /\ completed[1].idx = 2 /\ completed[2].idx = 1
  /\ assets[1] # assets[2]

\* C17: when Dump has returned nil with a non-empty catalog, every descriptor
\* was fetched and pushed exactly once, no fetch is still running, and a file
\* exists at the resolved path of every descriptor; where only one file was
\* created at that path it holds the whole body.
C17_NilMeansAllFetched ==
  (dumpErr = "nil" /\ K >= 1) =>
    /\ \A i \in 1..K :
         /\ recvCount[i] = 1 /\ pushCount[i] = 1
         /\ CountIdx(completed, i) = 1
         /\ LET p == FullFileName(targetFileNameTemplate, assets[i])
            IN  /\ Exists(fs[p])
                /\ fs[p] # OldFile
                /\ createCount[p] = 1 => fs[p] = FileOf(assets[i], assets[i].Bytes)
    /\ \A w \in Workers : wpc[w] \in {"off", "recv", "done"} /\ wasset[w] = NoMsg

C17_Witness ==
  /\ dumpErr = "nil" /\ K = 2
  /\ assets[1] # assets[2]
  /\ \A p \in {"a", "b"} : createCount[p] = 1

\* every goroutine Dump started has ended and both channels are empty
GoroutinesEnded ==
  /\ dpc = "done" /\ pendingClosed
  /\ apc = "done"
  /\ \A w \in Workers : w <= Concurrency => wpc[w] = "done"
  /\ pending = << >> /\ completedAssets = << >>

\* once the aggregator has stopped receiving no completion is left in the
\* channel and no worker holds one to send
NoSenderLeftBehind ==
  apc \in {"close", "done"} =>
    /\ completedAssets = << >>
    /\ \A w \in Workers : wpc[w] # "send" /\ wasset[w] = NoMsg

\* C18, as stated: with Concurrency >= 1, a non-empty catalog and no failing
\* fetch, the distributor eventually closes the work channel and ends, every
\* worker eventually ends, both channels end empty, and no worker is blocked
\* sending a completion once the aggregator has stopped receiving.
C18_NoGoroutineLeftBlocked ==
  /\ (pc = "wait" /\ Concurrency >= 1 /\ K >= 1) ~> (FetchFailed \/ GoroutinesEnded)
  /\ []NoSenderLeftBehind

\* C18, amended: with Concurrency >= 1 and a non-empty catalog, while the
\* process runs the goroutines of the pool have either all ended, with both
\* channels empty, or one of them can take a step; they all end unless a
\* fetch fails or main ends the process first; and no worker is blocked
\* sending a completion once the aggregator has stopped receiving.
C18_EndedOrAbleToStep ==
  /\ [](( Running /\ pc \in {"wait", "returned"} /\ Concurrency >= 1 /\ K >= 1) =>
          \/ GoroutinesEnded
          \/ ENABLED (Distributor \/ Aggregator \/ \E w \in Workers : Worker(w)))
  /\ (pc = "wait" /\ Concurrency >= 1 /\ K >= 1)
        ~> (FetchFailed \/ GoroutinesEnded \/ exit = "ok")
  /\ []NoSenderLeftBehind

C18_Witness ==
  /\ Concurrency = 2 /\ K = 1
  /\ pc = "returned" /\ Running
  /\ GoroutinesEnded

\* C19, as stated: with Concurrency <= 0 and a non-empty catalog the
\* distributor never gets past its sends, so it never closes the work channel
\* and never ends.
C19_DistributorBlocksForever ==
  (Concurrency <= 0 /\ K >= 1) => (dpc # "done" /\ ~pendingClosed)

\* C19, amended: with Concurrency <= 0 and a non-empty catalog no worker is
\* started, nothing is fetched, the aggregator receives nothing and Dump does
\* not return; the distributor buffers the first descriptor and, when the
\* catalog holds more than one, never sends a second and never closes the
\* work channel.
C19_NoWorkersNoReturn ==
  (Concurrency <= 0 /\ K >= 1) =>
    /\ \A w \in Workers : wpc[w] = "off" /\ wasset[w] = NoMsg
    /\ \A i \in 1..MaxK : recvCount[i] = 0 /\ pushCount[i] = 0
    /\ \A p \in Paths : createCount[p] = 0
    /\ completed = << >> /\ completedAssets = << >>
    /\ ~finished /\ apc \in {"off", "recv"}
    /\ pc # "returned" /\ dumpErr = "none" /\ exit = "running"
    /\ Len(sendLog) <= 1
    /\ K >= 2 => dpc # "done" /\ ~pendingClosed
    /\ (K >= 2 /\ Len(sendLog) = 1) => ~ENABLED Next

C19_Witness ==
  /\ Concurrency = 0 /\ K = 2
  /\ pc = "wait"
  /\ Len(sendLog) = 1 /\ Len(pending) = 1

====
